---- MODULE Spec2Model ----
(***************************************************************************)
(* Day_5/Cellpose_parallel.ipynb: a lazily loaded TCZYX array `data`, the  *)
(* per-plane analysis `analyze(z)`, the deferred graph built by            *)
(* `build_task_graph(range_z)` and its parallel evaluation by              *)
(* dask.compute over lazy_results on dask's threaded scheduler.            *)
(* Day_5/stardist.ipynb: the "Compare labels" view, update(z).             *)
(*                                                                         *)
(* The kernel's main thread executes one notebook cell at a time; a cell   *)
(* that calls dask.compute blocks the main thread until the call returns   *)
(* or raises.  The worker threads of the scheduler's pool run analyze(z)   *)
(* concurrently with each other.                                           *)
(***************************************************************************)
EXTENDS Integers, Sequences, FiniteSets, TLC

\* ---------------------------------------------------------------- bounds
MaxExtent  == 4   \* largest Z extent (data.shape[2]) of an array
MaxRadius  == 2   \* largest range_z passed to build_task_graph
MaxWorkers == 2   \* largest CPU count of the host (size of the thread pool)
MaxRuns    == 2   \* number of dask.compute calls in one session
MaxFaults  == 1   \* number of I/O or inference failures the environment injects
MaxChannels == 2  \* largest channel extent (shape[1]) of a stardist array

\* The notebook binds `data` twice: to the IDR image, then to the BIA image.
NumArrays == 2

Extents == 1..MaxExtent
Radii   == (0 - 1)..MaxRadius
Workers == 1..MaxWorkers
Channels == 1..MaxChannels

VARIABLES
    data,          \* module-level `data`: the array it is bound to
    lazy_results,  \* module-level `lazy_results`: list of Delayed
    results,       \* module-level `results`: tuple of (cellpose_masks, z)
    bound,         \* the names among lazy_results/results that are bound
    pc,            \* main thread: "idle" between runs, "compute" inside dask.compute
    num_workers,   \* CPU_COUNT, the size of the scheduler's default pool
    model,         \* module-level `model`: the Cellpose instance it is bound to
    ready,         \* scheduler state["ready"] of the current call (task keys)
    running,       \* scheduler state["running"] of the current call (task keys)
    queue,         \* the call's completion queue (FIFO of finished work items)
    cache,         \* scheduler state["cache"]: key -> result, for collected keys
    pool,          \* work items held by the thread pool (queued or executing)
    error,         \* the exception the last dask.compute raised to the cell
    runs,          \* number of dask.compute calls so far
    faults,        \* number of injected failures so far
    n_analyze,     \* invocations of analyze since the scheduler last started
    n_fetch,       \* slice fetches since the scheduler last started
    last_build,    \* arguments of the most recent build_task_graph call
    last_run,      \* record of the most recent dask.compute call
    prev_run,      \* record of the last dask.compute call that returned before it
    stardist_data, \* stardist.ipynb `data`: channel and Z extent of the image
    labels,        \* `labels` (both notebooks): channel and Z extent of the labels
    figure,        \* stardist.ipynb: what the last update(z) drew and printed
    shown          \* Cellpose_parallel.ipynb: what the last display(i) drew

vars == << data, lazy_results, results, bound, pc, num_workers, model, ready,
           running, queue, cache, pool, error, runs, faults, n_analyze,
           n_fetch, last_build, last_run, prev_run , stardist_data,
           labels, figure, shown >>

\* The names of Cellpose_parallel.ipynb, and those of stardist.ipynb.
parallel == << data, lazy_results, results, bound, pc, num_workers, model,
               ready, running, queue, cache, pool, error, runs, faults,
               n_analyze, n_fetch, last_build, last_run, prev_run >>

compare == << stardist_data, labels, figure, shown >>

\* ------------------------------------------------------- arrays and slices

\* The array a name is bound to: which remote array, and its Z extent.
Array(id, extent) == [id |-> id, extent |-> extent]

\* dask's check_index on an integer index: inside [-dimension, dimension).
IndexInBounds(ind, dimension) == ind < dimension /\ ind >= 0 - dimension

\* dask's posify_index: a negative index counts from the end of the axis.
Posify(ind, dimension) == IF ind < 0 THEN ind + dimension ELSE ind

\* Variant: the plane after the one asked for is selected.
SliceNextPlane(array, z) ==
    [src |-> array.id, plane |-> Posify(z, array.extent) + 1]

\* data[t, :, z, :, :]: the lazy selection of one Z plane of an array.
Slice(array, z) == [src |-> array.id, plane |-> Posify(z, array.extent)]

\* The pixels a fetch of a slice delivers.  The remote source is immutable, so
\* they are a function of (array, plane); plane p of the first array holds p.
Content(slice) == 100 * slice.src + slice.plane

\* Variant: a model shared between calls whose output drifts with every
\* dask.compute call it has served.
EvalStateful(pixels) == 10 * pixels + runs

\* model.eval(pixels, ...)[0] with a model created inside the call: a
\* deterministic function of the pixels.
Eval(pixels) == 10 * pixels

\* models.Cellpose(gpu=False, model_type='cyto'): a new instance; maker is 0
\* for the notebook cell and the key of the work item for a call of analyze.
Cellpose(maker) == [maker |-> maker]

\* Variant: analyze declares `global model`, so its assignment rebinds the
\* module-level name.
AssignGlobal(module_value, value) == value

\* model = ... inside analyze: the name is local to the call, the module-level
\* name keeps its value.
AssignLocal(module_value, value) == module_value

\* ------------------------------------------------------------ build_task_graph

\* Variant: a range that counts from the smaller to the larger of its ends.
RangeEitherWay(a, b) ==
    [k \in 1..(IF b > a THEN b - a ELSE a - b) |->
        (IF b > a THEN a ELSE b) + k - 1]

\* Variant: a range that includes its upper end.
RangeInclusive(a, b) == [k \in 1..(IF b >= a THEN b - a + 1 ELSE 0) |-> a + k - 1]

\* Python's range(a, b) as a sequence: empty when b <= a.
Range(a, b) == [k \in 1..(IF b > a THEN b - a ELSE 0) |-> a + k - 1]

\* Variant: dask.delayed(analyze(z)), which calls analyze while building.
DelayedEager(z) == [func |-> "analyze", z |-> z, evaluated |-> TRUE]

\* dask.delayed(analyze)(z): records the call, does not perform it.
Delayed(z) == [func |-> "analyze", z |-> z, evaluated |-> FALSE]

\* Variant: the middle counted from 1.
middle_z_one_based(array) == array.extent \div 2 + 1

\* Variant: the middle rounded up.
middle_z_ceil(array) == (array.extent + 1) \div 2

\* middle_z = data.shape[2] // 2
middle_z(array) == array.extent \div 2

\* Variant: the loop runs to middle_z + range_z inclusive.
build_task_graph_inclusive(array, range_z) ==
    LET zs == Range(middle_z(array) - range_z, middle_z(array) + range_z + 1)
    IN  [k \in 1..Len(zs) |-> Delayed(zs[k])]

build_task_graph(array, range_z) ==
    LET zs == Range(middle_z(array) - range_z, middle_z(array) + range_z)
    IN  [k \in 1..Len(zs) |-> Delayed(zs[k])]

\* Number of analyze invocations performed while building a list of Delayed.
Evaluated(tasks) == Cardinality({k \in 1..Len(tasks) : tasks[k].evaluated})

\* ------------------------------------------------------------------ analyze

\* The exception an out-of-bounds index raises; its message names the index.
IndexError(z) == [kind |-> "IndexError", coords |-> {z}]

\* An I/O failure of the fetch or a failure inside model.eval, as raised by the
\* library: analyze neither catches it nor adds z to it.
Failure(kind, z) == [kind |-> kind, coords |-> {}]

\* return cellpose_masks, z
Result(slice, z) == [mask |-> Eval(Content(slice)), z |-> z]

NoError == [kind |-> "none", coords |-> {}]
NoSlice == [src |-> 0 - 1, plane |-> 0 - 1]

NoResult == [mask |-> 0 - 1, z |-> 0 - 1]

\* ------------------------------------------------- dask's threaded scheduler

\* The keys of the graph handed to the scheduler, in submission order: the
\* key of the i-th Delayed of the list is i.
Keys(tasks) == [i \in 1..Len(tasks) |-> i]

\* A work item submitted to the pool for one key of a dask.compute call;
\* orphan: the call that submitted it has ended (it raised).
WorkItem(key, z) ==
    [key |-> key, z |-> z, stage |-> "queued", slice |-> NoSlice,
     orphan |-> FALSE]

\* What a finished work item puts on the completion queue of its call.
Done(key, res) == [key |-> key, failed |-> FALSE, res |-> res, exc |-> NoError]

\* Variant: the exception of a work item is swallowed and it counts as done.
FailedSwallowed(key, exc) ==
    [key |-> key, failed |-> FALSE, res |-> NoResult, exc |-> exc]

Failed(key, exc) == [key |-> key, failed |-> TRUE, res |-> NoResult, exc |-> exc]

Min(a, b) == IF a < b THEN a ELSE b
Max(a, b) == IF a > b THEN a ELSE b

\* fire_tasks: the number of ready tasks submitted at one pass of the loop.
NTasks(rdy, run) ==
    Min(Cardinality(rdy), Max(num_workers - Cardinality(run), 0))

\* fire_tasks: the ready keys popped at one pass.  The order of independent
\* keys is decided by their uuid-based names, so any NTasks of them may go.
FireChoices(rdy, run) == {S \in SUBSET rdy : Cardinality(S) = NTasks(rdy, run)}

\* Variant: the results in the reverse of submission order.
nested_get_reversed(keys, c) ==
    [i \in 1..Len(keys) |-> c[keys[Len(keys) + 1 - i]]]

\* nested_get(result, state["cache"]): the results in submission order.
nested_get(keys, c) == [i \in 1..Len(keys) |-> c[keys[i]]]

\* Variant: a pool that never counts a thread as taken.
ExecutingNone == {}

\* The work items that occupy a thread of the pool.
Executing == {w \in pool : w.stage # "queued"}

\* Variant: a done-callback that reports its work item twice.
PutTwice(w, entry) ==
    IF w.orphan THEN queue ELSE Append(Append(queue, entry), entry)

\* Variant: the entry of a work item reaches the queue being read now even
\* when the call that submitted the item has ended.
PutAlways(w, entry) == Append(queue, entry)

\* queue.put by the done-callback of a work item: it reaches the queue of the
\* call that submitted it; nobody reads the queue of a call that has ended.
Put(w, entry) ==
    IF w.orphan THEN queue ELSE Append(queue, entry)

\* Variant: a call that pops the Delayed objects off the list it was given.
GraphDrained(tasks) == << >>

\* The list handed to dask.compute, once the call has ended: the call builds
\* its own graph from the Delayed objects and leaves the list as it was.
GraphAfterCompute(tasks) == tasks

EmptyCache == [k \in {} |-> NoResult]

NoBuild == [called |-> FALSE, range_z |-> 0, shape_z |-> 0, array |-> 0]
NoRun == [tasks |-> << >>, array |-> Array(0, 1), outcome |-> "none",
          culprit |-> {}, failed |-> {}, swapped |-> FALSE, late |-> FALSE]

\* The record of a dask.compute call at its start.
StartRun(tasks, array, outcome) ==
    [tasks |-> tasks, array |-> array, outcome |-> outcome, culprit |-> {},
     failed |-> {}, swapped |-> FALSE, late |-> FALSE]

\* The record of the current call once a work item of it ended in an exception.
NoteFailure(w) ==
    IF w.orphan THEN last_run ELSE [last_run EXCEPT !.failed = @ \cup {w.z}]

\* The record of the current call once key is collected: swapped tells that
\* some key was collected before a key submitted ahead of it.
NoteCollected(key) ==
    [last_run EXCEPT !.swapped = @ \/ (\E k \in DOMAIN cache : k > key)]

\* The record of the latest call once a work item finished: late tells that
\* a work item finished whose own call had ended before.
NoteLate(w) ==
    IF w.orphan THEN [last_run EXCEPT !.late = TRUE] ELSE last_run

NoPrev == [valid |-> FALSE, tasks |-> << >>, array |-> Array(0, 1),
           results |-> << >>]

\* The record of the last returned call, as seen when the next call starts.
Remember ==
    IF last_run.outcome = "returned"
    THEN [valid |-> TRUE, tasks |-> last_run.tasks, array |-> last_run.array,
          results |-> results]
    ELSE prev_run

\* ---------------------------------------------------- stardist.ipynb: update

\* The shape (1, channels, extent, Y, X) of an array loaded by
\* load_binary_from_s3.
Shape(channels, extent) == [c |-> channels, z |-> extent]

\* Whether array[0, c, z, :, :] is accepted: numpy's rule for an integer
\* index is that of IndexInBounds, on every indexed axis.
Indexable(shape, c, z) == IndexInBounds(c, shape.c) /\ IndexInBounds(z, shape.z)

\* The plane array[0, c, z, :, :] selects.
Plane(shape, c, z) == [c |-> Posify(c, shape.c), z |-> Posify(z, shape.z)]

NoFigure == [shown |-> FALSE, z |-> 0, raised |-> FALSE, original |-> {},
             printed |-> {}, predicted |-> {}]

\* update(z): the left panel shows data[0, c, z] and, inside try/except, the
\* original labels[0, c, z] (the except branch prints z instead); the right
\* panel shows data[0, c, z] and the prediction label_slices[z].
update(z) ==
    LET c == 1
    IN  IF ~Indexable(stardist_data, c, z)
        THEN [shown |-> TRUE, z |-> z, raised |-> TRUE, original |-> {},
              printed |-> {}, predicted |-> {}]
        ELSE [shown |-> TRUE, z |-> z, raised |-> FALSE,
              original |-> IF Indexable(labels, c, z)
                           THEN {Plane(labels, c, z)} ELSE {},
              printed |-> IF Indexable(labels, c, z) THEN {} ELSE {z},
              predicted |-> {z}]

\* ------------------------------------------- Cellpose_parallel.ipynb: display

NoDisplay == [called |-> FALSE, i |-> 0, raised |-> FALSE, mask |-> {},
              mask_title |-> {}, original |-> {}, original_title |-> {}]

\* Variant: the label plane is chosen by the list index.
display_by_index(i) ==
    LET r == results[i + 1].mask
        z == results[i + 1].z
    IN  IF ~Indexable(labels, 0, i)
        THEN [called |-> TRUE, i |-> i, raised |-> TRUE, mask |-> {r},
              mask_title |-> {z}, original |-> {}, original_title |-> {}]
        ELSE [called |-> TRUE, i |-> i, raised |-> FALSE, mask |-> {r},
              mask_title |-> {z}, original |-> {Plane(labels, 0, i)},
              original_title |-> {z}]

\* display(i): r, z = results[i]; the left panel shows r, the right panel
\* labels[0, 0, z, :, :], both titled with z.  (Python's results[i] is the
\* (i + 1)-th element of the sequence.)
display(i) ==
    LET r == results[i + 1].mask
        z == results[i + 1].z
    IN  IF ~Indexable(labels, 0, z)
        THEN [called |-> TRUE, i |-> i, raised |-> TRUE, mask |-> {r},
              mask_title |-> {z}, original |-> {}, original_title |-> {}]
        ELSE [called |-> TRUE, i |-> i, raised |-> FALSE, mask |-> {r},
              mask_title |-> {z}, original |-> {Plane(labels, 0, z)},
              original_title |-> {z}]

\* ---------------------------------------------------------------------- Init

\* The session once the cells that load `data` and define analyze and
\* build_task_graph have run, on a first array whose Z extent is in extents.
ParallelInit(extents) ==
    /\ data \in {Array(0, e) : e \in extents}
    /\ lazy_results = << >>
    /\ results = << >>
    /\ bound = {}
    /\ pc = "idle"
    /\ num_workers \in Workers
    /\ model = Cellpose(0)
    /\ ready = {}
    /\ running = {}
    /\ queue = << >>
    /\ cache = EmptyCache
    /\ pool = {}
    /\ error = NoError
    /\ runs = 0
    /\ faults = 0
    /\ n_analyze = 0
    /\ n_fetch = 0
    /\ last_build = NoBuild
    /\ last_run = NoRun
    /\ prev_run = NoPrev

\* stardist.ipynb once its image and labels are loaded, before the view is
\* opened.
CompareInit(channels, label_channels, extents) ==
    /\ stardist_data \in {Shape(c, e) : c \in channels, e \in extents}
    /\ labels \in {Shape(c, e) : c \in label_channels, e \in extents}
    /\ figure = NoFigure
    /\ shown = NoDisplay

\* Both notebooks; only Cellpose_parallel.ipynb is run, stardist.ipynb has the
\* channel extents its cells print (2 for the image, 1 for the labels).
InitOn(extents) == ParallelInit(extents) /\ CompareInit({2}, {1}, {1})

Init == InitOn(Extents)

\* ------------------------------------------------------------- notebook cells

\* data = load_binary_from_s3(name): the name is bound to another array.
Rebind(e) ==
    /\ pc = "idle"
    /\ runs < MaxRuns
    /\ data.id + 1 < NumArrays
    /\ data' = Array(data.id + 1, e)
    /\ UNCHANGED << lazy_results, results, bound, pc, num_workers, compare, model, runs,
                    ready, running, queue, cache, pool, error, faults,
                    n_analyze, n_fetch, last_build, last_run, prev_run >>

\* lazy_results = build_task_graph(range_z)
Build(range_z) ==
    /\ pc = "idle"
    /\ runs < MaxRuns
    /\ lazy_results' = build_task_graph(data, range_z)
    /\ bound' = bound \cup {"lazy_results"}
    /\ n_analyze' = n_analyze + Evaluated(lazy_results')
    /\ last_build' = [called |-> TRUE, range_z |-> range_z,
                      shape_z |-> data.extent, array |-> data.id]
    /\ UNCHANGED << data, results, pc, num_workers, compare, model, runs, ready, running,
                    queue, cache, pool, error, faults, n_fetch, last_run,
                    prev_run >>

\* results = dask.compute() over an empty list: returns () at once.
ComputeEmpty ==
    /\ pc = "idle"
    /\ runs < MaxRuns
    /\ "lazy_results" \in bound
    /\ Len(lazy_results) = 0
    /\ results' = << >>
    /\ bound' = bound \cup {"results"}
    /\ error' = NoError
    /\ prev_run' = Remember
    /\ last_run' = StartRun(lazy_results, data, "returned")
    /\ runs' = runs + 1
    /\ lazy_results' = GraphAfterCompute(lazy_results)
    /\ UNCHANGED << data, pc, num_workers, compare, model, ready, running, queue,
                    cache, pool, faults, n_analyze, n_fetch, last_build >>

\* results = dask.compute(...): the scheduler starts and fires its first tasks,
\* then the main thread blocks on the completion queue.
ComputeStart ==
    /\ pc = "idle"
    /\ runs < MaxRuns
    /\ "lazy_results" \in bound
    /\ Len(lazy_results) > 0
    /\ pc' = "compute"
    /\ error' = NoError
    /\ queue' = << >>
    /\ cache' = EmptyCache
    /\ \E S \in FireChoices(1..Len(lazy_results), {}) :
          /\ running' = S
          /\ ready' = (1..Len(lazy_results)) \ S
          /\ pool' = pool \cup {WorkItem(k, lazy_results[k].z) : k \in S}
    /\ prev_run' = Remember
    /\ last_run' = StartRun(lazy_results, data, "running")
    /\ runs' = runs + 1
    /\ n_analyze' = 0
    /\ n_fetch' = 0
    /\ UNCHANGED << data, lazy_results, results, bound, num_workers, compare, model, faults,
                    last_build >>

\* interact(update, z=IntSlider(min=0, max=data.shape[2]-1)): the slider is
\* moved to z and update(z) redraws the figure.
Update(z) ==
    /\ z \in 0..(stardist_data.z - 1)
    /\ figure' = update(z)
    /\ UNCHANGED << parallel, stardist_data, labels, shown >>

\* interact(display, i=IntSlider(min=0, max=len(results)-1)): the slider is
\* moved to i and display(i) redraws the figure.
Display(i) ==
    /\ pc = "idle"
    /\ "results" \in bound
    /\ i \in 0..(Len(results) - 1)
    /\ shown' = display(i)
    /\ UNCHANGED << parallel, stardist_data, labels, figure >>

\* ------------------------------------------------------------- worker threads

\* A pool thread takes a queued work item and calls analyze(z); the index z is
\* out of bounds for the array `data` is bound to now: IndexError.
ThreadIndexError(w) ==
    /\ w \in pool
    /\ w.stage = "queued"
    /\ Cardinality(Executing) < num_workers
    /\ ~IndexInBounds(w.z, data.extent)
    /\ n_analyze' = n_analyze + 1
    /\ pool' = pool \ {w}
    /\ queue' = Put(w, Failed(w.key, IndexError(w.z)))
    /\ last_run' = NoteFailure(w)
    /\ model' = AssignLocal(model, Cellpose(w.key))
    /\ UNCHANGED << data, lazy_results, results, bound, pc, num_workers, compare,
                    ready, running, cache, error, runs, faults, n_fetch,
                    last_build, prev_run >>

\* A pool thread takes a queued work item and calls analyze(z); the index is
\* accepted and the plane of the array `data` is bound to now is selected.
ThreadStart(w) ==
    /\ w \in pool
    /\ w.stage = "queued"
    /\ Cardinality(Executing) < num_workers
    /\ IndexInBounds(w.z, data.extent)
    /\ n_analyze' = n_analyze + 1
    /\ pool' = (pool \ {w}) \cup
               {[w EXCEPT !.stage = "executing", !.slice = Slice(data, w.z)]}
    /\ model' = AssignLocal(model, Cellpose(w.key))
    /\ UNCHANGED << data, lazy_results, results, bound, pc, num_workers, compare,
                    ready, running, queue, cache, error, runs, faults, n_fetch,
                    last_build, last_run, prev_run >>

\* model.eval fetches the plane and segments it; analyze returns (masks, z).
ThreadFinish(w) ==
    /\ w \in pool
    /\ w.stage = "executing"
    /\ n_fetch' = n_fetch + 1
    /\ pool' = pool \ {w}
    /\ queue' = Put(w, Done(w.key, Result(w.slice, w.z)))
    /\ last_run' = NoteLate(w)
    /\ UNCHANGED << data, lazy_results, results, bound, pc, num_workers, compare, model,
                    ready, running, cache, error, runs, faults, n_analyze,
                    last_build, prev_run >>

\* The fetch fails with an I/O error, or model.eval raises.  (What an orphan
\* ends with is dropped either way: ThreadFinish covers its end.)
ThreadFail(w, kind) ==
    /\ w \in pool
    /\ w.stage = "executing"
    /\ ~w.orphan
    /\ faults < MaxFaults
    /\ faults' = faults + 1
    /\ n_fetch' = n_fetch + 1
    /\ pool' = pool \ {w}
    /\ queue' = Put(w, Failed(w.key, Failure(kind, w.z)))
    /\ last_run' = NoteFailure(w)
    /\ UNCHANGED << data, lazy_results, results, bound, pc, num_workers, compare, model,
                    ready, running, cache, error, runs, n_analyze,
                    last_build, prev_run >>

\* The fetch of the plane stalls for good (the remote end stops answering):
\* analyze has no timeout, so the thread stays inside model.eval.
ThreadHang(w) ==
    /\ w \in pool
    /\ w.stage = "executing"
    /\ ~w.orphan
    /\ faults < MaxFaults
    /\ faults' = faults + 1
    /\ pool' = (pool \ {w}) \cup {[w EXCEPT !.stage = "hung"]}
    /\ UNCHANGED << data, lazy_results, results, bound, pc, num_workers, compare, model,
                    ready, running, queue, cache, error, runs, n_analyze,
                    n_fetch, last_build, last_run, prev_run >>

\* ------------------------------------------------- the scheduler's main loop

\* queue_get delivers a failed item: raise_exception(exc, tb) leaves the loop
\* and the cell; the assignment to `results` does not happen.
CollectRaise ==
    /\ pc = "compute"
    /\ queue # << >>
    /\ Head(queue).failed
    /\ pc' = "idle"
    /\ error' = Head(queue).exc
    /\ last_run' = [last_run EXCEPT !.outcome = "raised",
                      !.culprit = {lazy_results[Head(queue).key].z}]
    /\ queue' = << >>
    /\ cache' = EmptyCache
    /\ ready' = {}
    /\ running' = {}
    /\ pool' = {[w EXCEPT !.orphan = TRUE] : w \in pool}
    /\ lazy_results' = GraphAfterCompute(lazy_results)
    /\ UNCHANGED << data, results, bound, num_workers, compare, model,
                    runs, faults, n_analyze, n_fetch, last_build, prev_run >>

\* queue_get delivers a result, tasks remain: finish_task, then fire_tasks.
CollectFire ==
    /\ pc = "compute"
    /\ queue # << >>
    /\ ~Head(queue).failed
    /\ LET e == Head(queue)
           left == running \ {e.key}
       IN  /\ ready \cup left # {}
           /\ cache' = [k \in DOMAIN cache \cup {e.key} |->
                           IF k = e.key THEN e.res ELSE cache[k]]
           /\ \E S \in FireChoices(ready, left) :
                 /\ running' = left \cup S
                 /\ ready' = ready \ S
                 /\ pool' = pool \cup
                       {WorkItem(k, lazy_results[k].z) : k \in S}
    /\ queue' = Tail(queue)
    /\ last_run' = NoteCollected(Head(queue).key)
    /\ UNCHANGED << data, lazy_results, results, bound, pc, num_workers, compare, model,
                    error, runs, faults, n_analyze, n_fetch, last_build,
                    prev_run >>

\* queue_get delivers the last result: the loop ends, the results are taken
\* from the cache in submission order and assigned to `results`.
CollectReturn ==
    /\ pc = "compute"
    /\ queue # << >>
    /\ ~Head(queue).failed
    /\ LET e == Head(queue)
           left == running \ {e.key}
           full == [k \in DOMAIN cache \cup {e.key} |->
                       IF k = e.key THEN e.res ELSE cache[k]]
       IN  /\ ready \cup left = {}
           /\ results' = nested_get(Keys(lazy_results), full)
    /\ bound' = bound \cup {"results"}
    /\ pc' = "idle"
    /\ last_run' = [NoteCollected(Head(queue).key) EXCEPT !.outcome = "returned"]
    /\ queue' = << >>
    /\ cache' = EmptyCache
    /\ ready' = {}
    /\ running' = {}
    /\ lazy_results' = GraphAfterCompute(lazy_results)
    /\ UNCHANGED << data, num_workers, compare, model, pool, error, runs,
                    faults, n_analyze, n_fetch, last_build, prev_run >>

\* A step of a pool thread: a part of one call of analyze.
WorkerStep ==
    \E w \in pool :
        \/ ThreadIndexError(w)
        \/ ThreadStart(w)
        \/ ThreadFinish(w)
        \/ \E kind \in {"FetchError", "OperationError"} : ThreadFail(w, kind)

\* The steps of the pool's threads and of the scheduler's loop.
Scheduler ==
    \/ \E w \in pool : ThreadIndexError(w)
    \/ \E w \in pool : ThreadStart(w)
    \/ \E w \in pool : ThreadFinish(w)
    \/ \E w \in pool, kind \in {"FetchError", "OperationError"} : ThreadFail(w, kind)
    \/ CollectRaise
    \/ CollectFire
    \/ CollectReturn

\* A session: cells executed in any order, up to MaxRuns dask.compute calls.
Next ==
    \/ \E e \in Extents : Rebind(e)
    \/ \E r \in Radii : Build(r)
    \/ ComputeEmpty
    \/ ComputeStart
    \/ Scheduler

Spec == Init /\ [][Next]_vars

\* A session up to the end of its first dask.compute call: the cells before
\* the call in any order, the call, and the work items it leaves behind.
NextFirst ==
    \/ runs = 0 /\ \E e \in Extents : Rebind(e)
    \/ runs = 0 /\ \E r \in Radii : Build(r)
    \/ runs = 0 /\ ComputeEmpty
    \/ runs = 0 /\ ComputeStart
    \/ Scheduler

SpecFirst == Init /\ [][NextFirst]_vars

\* The same, started on an array of shape (1, 2, 10, 4, 4).
InitE2E == InitOn({10})

SpecE2E == InitE2E /\ [][NextFirst]_vars

\* The first call with an environment in which a fetch may stall for good.
NextHang ==
    \/ NextFirst
    \/ \E w \in pool : ThreadHang(w)

\* The pool's threads keep running and what they call returns unless it
\* stalled; the main thread's queue.get returns once the queue has an entry.
FairHang ==
    /\ WF_vars(\E w \in pool : ThreadIndexError(w) \/ ThreadStart(w))
    /\ WF_vars(\E w \in pool : ThreadFinish(w))
    /\ WF_vars(CollectRaise)
    /\ WF_vars(CollectFire)
    /\ WF_vars(CollectReturn)

SpecHang == Init /\ [][NextHang]_vars /\ FairHang

\* The notebook in the order of its cells up to the comparison view: build,
\* the first dask.compute call, then display on the results of that call.
NextDisplay ==
    \/ runs = 0 /\ \E r \in Radii : Build(r)
    \/ runs = 0 /\ ComputeEmpty
    \/ runs = 0 /\ ComputeStart
    \/ Scheduler
    \/ \E i \in 0..(2 * MaxRadius - 1) : Display(i)

\* The labels are those of the image `data` is bound to first: one channel
\* and the Z extent of the image.
InitDisplay == ParallelInit(Extents) /\ CompareInit({2}, {1}, {data.extent})

SpecDisplay == InitDisplay /\ [][NextDisplay]_vars

\* The "Compare labels" view of stardist.ipynb on images and labels of every
\* small shape.
InitCompare ==
    ParallelInit({1}) /\ CompareInit(Channels, Channels, Extents)

NextCompare == \E z \in 0..(MaxExtent - 1) : Update(z)

SpecCompare == InitCompare /\ [][NextCompare]_vars

\* ------------------------------------------------------------------ claims

\* Whether a sequence of results carries, position by position, the
\* coordinates of a sequence of tasks.
TagsMatch(res, tasks) ==
    /\ Len(res) = Len(tasks)
    /\ \A i \in 1..Len(tasks) : res[i].z = tasks[i].z

\* C1: for every array extent and every radius r >= 0, build_task_graph(r)
\* returns exactly 2 * r tasks whose coordinates strictly increase in list
\* order, so no two tasks of one built graph share a coordinate.
C1_BuildCountAndOrder ==
    (last_build.called /\ last_build.range_z >= 0) =>
        /\ Len(lazy_results) = 2 * last_build.range_z
        /\ \A i, j \in 1..Len(lazy_results) :
              i < j => lazy_results[i].z < lazy_results[j].z

C1_Witness ==
    /\ last_build.called
    /\ last_build.range_z = MaxRadius
    /\ Len(lazy_results) = 2 * MaxRadius

\* C2: when a dask.compute call over N tasks returns (no task failed), it
\* returns exactly N results and result i carries the coordinate task i was
\* built with, whatever the order in which the tasks completed.
C2_SubmissionOrder ==
    last_run.outcome = "returned" => TagsMatch(results, last_run.tasks)

C2_Witness ==
    /\ last_run.outcome = "returned"
    /\ Len(results) = 2 * MaxRadius
    /\ last_run.swapped

\* C3: building the graph fetches no slice and invokes analyze for no task:
\* until the first dask.compute call of the session starts, the number of
\* fetches and the number of analyze invocations are zero and the pool holds
\* no work item, whatever was built.
C3_BuildIsLazy ==
    runs = 0 => (n_fetch = 0 /\ n_analyze = 0 /\ pool = {})

C3_Witness ==
    /\ runs = 0
    /\ last_build.called
    /\ Len(lazy_results) = 2 * MaxRadius

\* C4: the coordinates build_task_graph enumerates are exactly the integers of
\* [center - r, center + r), in increasing order: task k (from 0) has
\* coordinate center - r + k, center - r is included and center + r is not,
\* where center is the floor of half the Z extent of the array.
C4_HalfOpenRange ==
    last_build.called =>
        LET center == last_build.shape_z \div 2
            r == last_build.range_z
        IN  /\ \A k \in 1..Len(lazy_results) :
                  lazy_results[k].z = center - r + (k - 1)
            /\ {lazy_results[k].z : k \in 1..Len(lazy_results)} =
                  (center - r)..(center + r - 1)

C4_Witness ==
    /\ last_build.called
    /\ last_build.range_z = MaxRadius
    /\ last_build.shape_z = 3
    /\ lazy_results[1].z = 1 - MaxRadius

\* C5: a dask.compute call in which a task raised never returns: a call that
\* returned had no failing task and delivered one result per task, each under
\* its own coordinate; a call in which exactly one task raised ended by raising
\* that task's exception; and a call that raised assigned nothing to results.
C5_FailFast ==
    /\ last_run.outcome = "returned" =>
          /\ last_run.failed = {}
          /\ TagsMatch(results, last_run.tasks)
    /\ (last_run.outcome \in {"returned", "raised"}
          /\ Cardinality(last_run.failed) = 1) =>
          /\ last_run.outcome = "raised"
          /\ error.kind # "none"
          /\ last_run.culprit = last_run.failed
    /\ last_run.outcome = "raised" =>
          IF prev_run.valid THEN results = prev_run.results
                            ELSE "results" \notin bound

C5_Witness ==
    /\ last_run.outcome = "raised"
    /\ Cardinality(last_run.failed) = 1
    /\ error.kind = "OperationError"
    /\ Len(last_run.tasks) = 2 * MaxRadius

\* C6: no successful result is ever produced for a coordinate outside
\* [0, extent) of the analysed axis: every result a dask.compute call returns
\* has a coordinate inside the Z extent of the array the call ran on.
C6_NoResultOutOfRange ==
    last_run.outcome = "returned" =>
        \A i \in 1..Len(results) :
            results[i].z \in 0..(last_run.array.extent - 1)

\* C7: on an array of shape (1, 2, 10, 4, 4) whose plane p holds p, with an
\* operation returning ten times its input, build_task_graph(2) followed by
\* dask.compute yields [(30, 3), (40, 4), (50, 5), (60, 6)] in submission
\* order, whatever the completion order of the four tasks.
C7_EndToEnd ==
    (/\ last_run.outcome = "returned"
     /\ last_run.array = Array(0, 10)
     /\ last_build.called
     /\ last_build.shape_z = 10
     /\ last_build.range_z = 2) =>
        results = << [mask |-> 30, z |-> 3], [mask |-> 40, z |-> 4],
                     [mask |-> 50, z |-> 5], [mask |-> 60, z |-> 6] >>

C7_Witness ==
    /\ last_run.outcome = "returned"
    /\ last_run.array = Array(0, 10)
    /\ last_build.called
    /\ last_build.shape_z = 10
    /\ last_build.range_z = 2
    /\ last_run.swapped

\* C8: build_task_graph(0) returns an empty list, and dask.compute over an
\* empty list returns an empty result sequence without a fetch, without an
\* invocation of analyze and without a work item submitted.
C8_ZeroRadius ==
    /\ (last_build.called /\ last_build.range_z = 0) => lazy_results = << >>
    /\ (last_run.outcome # "none" /\ last_run.tasks = << >>) =>
          /\ last_run.outcome = "returned"
          /\ "results" \in bound
          /\ results = << >>
          /\ n_fetch = 0
          /\ n_analyze = 0
          /\ pool = {}

C8_Witness ==
    /\ last_build.called
    /\ last_build.range_z = 0
    /\ last_run.outcome = "returned"
    /\ runs = 1

\* C9: two dask.compute calls over the same task sequence against the same
\* array return the same result sequence (same length, same mask and same
\* coordinate at every index), whatever the completion orders.
C9_Idempotent ==
    (/\ last_run.outcome = "returned"
     /\ prev_run.valid
     /\ prev_run.tasks = last_run.tasks
     /\ prev_run.array = last_run.array) =>
        results = prev_run.results

C9_Witness ==
    /\ last_run.outcome = "returned"
    /\ prev_run.valid
    /\ prev_run.tasks = last_run.tasks
    /\ prev_run.array = last_run.array
    /\ Len(results) = 2 * MaxRadius
    /\ last_run.swapped

\* C10: whenever a dask.compute call ends in an error, the exception raised to
\* the caller carries the coordinate of the task that failed.
C10_ErrorCarriesCoordinate ==
    last_run.outcome = "raised" => error.coords = last_run.culprit

\* C11: the array a task uses is fixed when the graph is built: every task of
\* a dask.compute call selects its plane from the array whose shape was used
\* by build_task_graph to compute the task's coordinate, whatever cells ran
\* between the build and the call.
C11_ArrayFixedAtBuild ==
    \A w \in pool :
        (w.stage = "executing" /\ ~w.orphan) => w.slice.src = last_build.array

C13_RunTerminates == (pc = "compute") ~> (pc = "idle")

\* C14: once the first failure has been observed (the dask.compute call has
\* raised it), no task of the call that had not started is started any more:
\* analyze is not invoked after the call has raised.
C14_NoStartAfterFailure ==
    [][last_run.outcome = "raised" => n_analyze' = n_analyze]_vars

\* C15: what a work item delivers after its dask.compute call has ended is
\* discarded: the step in which such a work item finishes changes neither
\* `results` nor the completion queue and cache of a call in progress.
C15_LateResultsDiscarded ==
    [][(\E w \in pool : w.orphan /\ w.stage = "executing"
                            /\ pool' = pool \ {w}) =>
          (results' = results /\ bound' = bound /\ queue' = queue
              /\ cache' = cache)]_vars

C15_Witness ==
    /\ last_run.late
    /\ last_run.outcome = "returned"
    /\ runs = 2
    /\ Len(results) = 2 * MaxRadius

\* C16: the result store is created empty when a batch is submitted: while a
\* dask.compute call runs, and after it has raised, `results` holds no result
\* of an earlier call.
C16_StoreEmptyAtSubmit ==
    last_run.outcome \in {"running", "raised"} =>
        ("results" \notin bound \/ results = << >>)

\* C17: no step of a worker writes `results`, `data`, `lazy_results` or the
\* module-level `model`; `results` is written only by the main thread, in the
\* step that ends a dask.compute call.
C17_SingleWriter ==
    [][/\ WorkerStep =>
             /\ results' = results
             /\ bound' = bound
             /\ data' = data
             /\ lazy_results' = lazy_results
             /\ model' = model
       /\ (results' # results
               \/ ("results" \in bound') # ("results" \in bound)) =>
             \/ pc = "compute" /\ pc' = "idle"
             \/ pc = "idle" /\ pc' = "idle" /\ runs' = runs + 1]_vars

C17_Witness ==
    /\ pc = "compute"
    /\ Len(queue) = MaxWorkers
    /\ "results" \notin bound
    /\ model = Cellpose(0)

\* C18: in every reachable state the number of work items being executed
\* (inside analyze: fetching or computing) is at most the size of the pool,
\* however many work items have been submitted.
C18_PoolBounded ==
    Cardinality({w \in pool : w.stage # "queued"}) <= num_workers

C18_Witness ==
    /\ num_workers = MaxWorkers
    /\ Cardinality({w \in pool : w.stage # "queued"}) = MaxWorkers
    /\ \E w \in pool : w.stage = "queued"

\* C19: a dask.compute call leaves the graph unchanged: once the call has
\* returned or raised, lazy_results has the length and, at every position,
\* the coordinate it had when the call started.
C19_GraphUnchanged ==
    last_run.outcome \in {"returned", "raised"} =>
        /\ Len(lazy_results) = Len(last_run.tasks)
        /\ \A i \in 1..Len(lazy_results) :
              lazy_results[i].z = last_run.tasks[i].z

C19_Witness ==
    /\ last_run.outcome = "raised"
    /\ pool = {}
    /\ Len(last_run.tasks) = 2 * MaxRadius
    /\ lazy_results = last_run.tasks

\* C20: with labels of shape (1, 1, Z, Y, X) and an image of the same Z
\* extent, update(z) overlays the original label plane z for every selectable
\* z and does not enter the except branch that prints z.
C20_OriginalLabelsShown ==
    (/\ figure.shown
     /\ ~figure.raised
     /\ labels.c = 1
     /\ labels.z = stardist_data.z) =>
        /\ figure.printed = {}
        /\ \E plane \in figure.original : plane.z = figure.z

\* C21: for every extent >= 1 and every radius r with 0 <= r <= extent \div 2,
\* all coordinates of the graph build_task_graph(r) returns lie in
\* [0, extent), and a dask.compute call over it on an array of that extent
\* does not end in an IndexError.
C21_CentredRangeInBounds ==
    (/\ last_build.called
     /\ last_build.range_z >= 0
     /\ last_build.range_z <= last_build.shape_z \div 2) =>
        /\ \A k \in 1..Len(lazy_results) :
              lazy_results[k].z \in 0..(last_build.shape_z - 1)
        /\ (last_run.outcome = "raised"
                /\ last_run.array.extent = last_build.shape_z) =>
              error.kind # "IndexError"

C21_Witness ==
    /\ last_build.called
    /\ last_build.shape_z = 4
    /\ last_build.range_z = 2
    /\ last_run.outcome = "returned"
    /\ last_run.array.extent = 4
    /\ results[1].z = 0

\* C22: display pairs by coordinate tag, not by list index: for every index
\* i of results, display(i) shows the mask of results[i], and next to it the
\* plane of the original labels at the coordinate z stored in results[i],
\* both titled with that z.
C22_PairedByTag ==
    shown.called =>
        LET r == results[shown.i + 1]
        IN  /\ ~shown.raised
            /\ shown.mask = {r.mask}
            /\ shown.mask_title = {r.z}
            /\ shown.original = {Plane(labels, 0, r.z)}
            /\ shown.original_title = {r.z}

C22_Witness ==
    /\ shown.called
    /\ Len(results) = 2 * MaxRadius
    /\ shown.i = 2 * MaxRadius - 1
    /\ results[shown.i + 1].z # shown.i
    /\ shown.original = {[c |-> 0, z |-> results[shown.i + 1].z]}

\* C23: for a negative radius build_task_graph raises nothing and returns an
\* empty list, and the dask.compute call that follows returns an empty result
\* sequence without a fetch, an invocation of analyze or a work item.
C23_NegativeRadius ==
    (last_build.called /\ last_build.range_z < 0) =>
        /\ "lazy_results" \in bound
        /\ lazy_results = << >>
        /\ runs > 0 =>
              /\ last_run.outcome = "returned"
              /\ error = NoError
              /\ "results" \in bound
              /\ results = << >>
              /\ n_fetch = 0
              /\ n_analyze = 0
              /\ pool = {}

C23_Witness ==
    /\ last_build.called
    /\ last_build.range_z < 0
    /\ last_build.shape_z = MaxExtent
    /\ runs = 1
    /\ last_run.outcome = "returned"

====
